---- MODULE Spec2Model ----
(***************************************************************************)
(* A model of computermate's two Computer implementations:                 *)
(*   NativeComputer      (src/computers/native-computer.ts)                *)
(*   PlaywrightComputer  (src/computers/playwright-computer.ts)            *)
(* together with the image compressor (src/utils/compress-image.ts), the   *)
(* path generator (src/utils/mouse-path.ts) and the two entry points       *)
(* (src/index.ts, src/http.ts).                                            *)
(*                                                                         *)
(* Numbers.  The scaling factor is a JavaScript double; it is kept here as *)
(* an exact fraction <<num, den>>.  Math.round(n / d) is Round(n, d).      *)
(* null is written 0 for targetWidth / targetHeight / maxW / maxH (the     *)
(* code only ever tests these for truthiness, and 0 is falsy like null),   *)
(* and <<>> for cachedDimensions and for an absent option.                 *)
(*                                                                         *)
(* Environment.  The display backend answers geometry queries (monitorOk   *)
(* and robotOk are TRUE) in every specification but SpecDims, where the    *)
(* queries may fail and recover.                                           *)
(***************************************************************************)
EXTENDS Integers, Sequences, FiniteSets, TLC

VARIABLES
  computerType,         \* createComputer(type): "native" or "playwright"
  realW, realH,         \* geometry of the primary monitor (the backend's truth)
  monitorOk, robotOk,   \* whether Monitor.all() / robot.getScreenSize() answer
  maxScalingDimension,  \* options.maxScalingDimension parsed: <<>> or <<w, h>>
  pendingInit,          \* closure of initializeScaling awaiting getDimensions
  cachedDimensions,     \* NativeComputer.cachedDimensions
  targetWidth,          \* NativeComputer.targetWidth
  targetHeight,         \* NativeComputer.targetHeight
  scalingFactor,        \* NativeComputer.scalingFactor
  lastMousePos,         \* lastMousePos of the instance
  width, height,        \* PlaywrightComputer.width / height
  page,                 \* PlaywrightComputer.page (0 is null)
  pages,                \* context.pages(): open pages, oldest first
  nextPage,             \* id of the next page the browser opens
  browser,              \* PlaywrightComputer.browser is set
  starting,             \* start() awaits context.newPage(): the page that
                        \* call resolves to (0 when start() is not running)
  call,                 \* the tool call in flight or last finished
  trace,                \* backend primitives issued by that call (and the
                        \* timer waits of type)
  probe,                \* result of the last pure-function application
  sizes,                \* encoded sizes of the image handed to compressImage
  entry,                \* entry point: "lib" (a Computer used directly),
                        \* "stdio" (index.ts main) or "http" (http.ts)
  serverPc,             \* where the entry point is: "boot", "started",
                        \* "serving", "aborted" ("none" for "lib")
  requests,             \* the tool calls of the server's requests, by id
  backend               \* primitives the backend observed: [id, e], in order

vars == <<computerType, realW, realH, monitorOk, robotOk, maxScalingDimension,
          pendingInit, cachedDimensions, targetWidth, targetHeight,
          scalingFactor, lastMousePos, width, height, page, pages, nextPage,
          browser, starting, call, trace, probe, sizes, entry, serverPc,
          requests, backend>>

nativeVars == <<cachedDimensions, targetWidth, targetHeight, scalingFactor>>
envVars == <<computerType, realW, realH, monitorOk, robotOk,
             maxScalingDimension, width, height>>
pageVars == <<page, pages, nextPage, browser, starting>>
serverVars == <<entry, serverPc, requests, backend>>

----------------------------------------------------------------------------
(* Bounds of the model                                                     *)

MaxReal == 5        \* real screen sides range over 1..MaxReal (SpecScale)
MaxBound == 6       \* configured max sides range over 0..MaxBound (SpecScale)

(* Program constants                                                       *)

FallbackWidth == 1280
FallbackHeight == 800

----------------------------------------------------------------------------
(* Arithmetic                                                              *)

Min(a, b) == IF a <= b THEN a ELSE b
Max(a, b) == IF a >= b THEN a ELSE b
Abs(a) == IF a < 0 THEN -a ELSE a

\* Math.round(n / d) for d > 0: the nearest integer, ties towards +infinity.
Round(n, d) == (2 * n + d) \div (2 * d)

\* JavaScript truthiness of a number-or-null (null is written 0).
Truthy(n) == n # 0

Pt(px, py) == [x |-> px, y |-> py]

NoCall == [pc |-> "idle"]
NoProbe == [op |-> "none"]
NoSizes == <<>>

\* The Computer is used directly: there is no server.
NoServer ==
  /\ entry = "lib"
  /\ serverPc = "none"
  /\ requests = <<>>
  /\ backend = <<>>

----------------------------------------------------------------------------
(* NativeComputer: dimensions and scaling                                  *)

\* getDimensions(): the value it returns in the current state.
getDimensions ==
  IF Truthy(targetWidth) /\ Truthy(targetHeight)
    THEN <<targetWidth, targetHeight>>
  ELSE IF cachedDimensions # <<>> THEN cachedDimensions
  ELSE IF monitorOk \/ robotOk THEN <<realW, realH>>
  ELSE <<FallbackWidth, FallbackHeight>>

\* getDimensions(): cachedDimensions after the call.  The fallback value is
\* returned without being stored.
getDimensionsCache ==
  IF Truthy(targetWidth) /\ Truthy(targetHeight) THEN cachedDimensions
  ELSE IF cachedDimensions # <<>> THEN cachedDimensions
  ELSE IF monitorOk \/ robotOk THEN <<realW, realH>>
  ELSE <<>>

\* A plausible slip: the never-upscale guard is dropped.
shouldScale_always(scale) == TRUE

\* `if (scale < 1)` for scale = scale[1] / scale[2].
shouldScale(scale) == scale[1] < scale[2]

\* Math.min(scaleW, scaleH) for scaleW = mW / rW and scaleH = mH / rH.
minScale(mW, mH, rW, rH) ==
  IF mW * rH <= mH * rW THEN <<mW, rW>> ELSE <<mH, rH>>

\* The body of initializeScaling after `await this.getDimensions()`:
\* the new scalingFactor (f), targetWidth (tw) and targetHeight (th).
\* Math.round(maxW / ratio) with ratio = realW / realH is computed exactly
\* as round(maxW * realH / realW).
initializeScalingResult(mW, mH, rW, rH) ==
  LET keep == [f |-> scalingFactor, tw |-> targetWidth, th |-> targetHeight]
  IN
  IF Truthy(mW) /\ Truthy(mH) THEN
    LET scale == minScale(mW, mH, rW, rH) IN
    IF shouldScale(scale)
      THEN [f |-> scale,
            tw |-> Round(rW * scale[1], scale[2]),
            th |-> Round(rH * scale[1], scale[2])]
      ELSE keep
  ELSE IF Truthy(mW) /\ mW < rW THEN
    [f |-> <<mW, rW>>, tw |-> mW, th |-> Round(mW * rH, rW)]
  ELSE IF Truthy(mH) /\ mH < rH THEN
    [f |-> <<mH, rH>>, tw |-> Round(mH * rW, rH), th |-> mH]
  ELSE keep

\* A plausible slip: the conversion scales in the wrong direction.
toRealCoordinate_times(p) ==
  Pt(Round(p.x * scalingFactor[1], scalingFactor[2]),
     Round(p.y * scalingFactor[1], scalingFactor[2]))

\* toRealCoordinate(p): Math.round(p / scalingFactor) on each axis.
toRealCoordinate(p) ==
  Pt(Round(p.x * scalingFactor[2], scalingFactor[1]),
     Round(p.y * scalingFactor[2], scalingFactor[1]))

\* Math.round(v * this.scalingFactor): physical length to logical length.
scaleDown(v) == Round(v * scalingFactor[1], scalingFactor[2])

\* The constructor of NativeComputer, given the pointer position the backend
\* reports and the option.  With a non-empty option it calls
\* initializeScaling(w || null, h || null), which runs getDimensions() and then
\* suspends: pendingInit holds the suspended call's arguments and locals.
NativeConstructed(pos, opt) ==
  /\ lastMousePos = pos
  /\ maxScalingDimension = opt
  /\ targetWidth = 0
  /\ targetHeight = 0
  /\ scalingFactor = <<1, 1>>
  /\ IF opt = <<>>
       THEN /\ cachedDimensions = <<>>
            /\ pendingInit = <<>>
       ELSE LET ok == monitorOk \/ robotOk
                dims == IF ok THEN <<realW, realH>>
                        ELSE <<FallbackWidth, FallbackHeight>>
            IN /\ cachedDimensions = (IF ok THEN dims ELSE <<>>)
               /\ pendingInit = <<[maxW |-> opt[1], maxH |-> opt[2],
                                   realW |-> dims[1], realH |-> dims[2]]>>

\* initializeScaling resumes after `await this.getDimensions()`.
initializeScaling ==
  /\ pendingInit # <<>>
  /\ LET c == pendingInit[1]
         r == initializeScalingResult(c.maxW, c.maxH, c.realW, c.realH)
     IN /\ scalingFactor' = r.f
        /\ targetWidth' = r.tw
        /\ targetHeight' = r.th
  /\ pendingInit' = <<>>
  /\ UNCHANGED <<envVars, serverVars,
                 cachedDimensions, lastMousePos, pageVars, call,
                 trace, probe, sizes>>

----------------------------------------------------------------------------
(* SpecScale: the scaling arithmetic over a range of screens and options   *)

ScaleOptions ==
  {<<>>} \cup {<<w, h>> : w \in 0..MaxBound, h \in 0..MaxBound}

InitScale ==
  /\ computerType = "native"
  /\ realW \in 1..MaxReal
  /\ realH \in 1..MaxReal
  /\ monitorOk = TRUE
  /\ robotOk = TRUE
  /\ \E opt \in ScaleOptions : NativeConstructed(Pt(0, 0), opt)
  /\ width = 0 /\ height = 0
  /\ page = 0 /\ pages = <<>> /\ nextPage = 1 /\ browser = FALSE
  /\ starting = 0
  /\ NoServer
  /\ call = NoCall
  /\ trace = <<>>
  /\ probe = NoProbe
  /\ sizes = NoSizes

\* The get_dimensions tool: computer.getDimensions().  The probe keeps what
\* the call returned, whether scaling initialization had finished (settled)
\* and what the previous settled call returned (prev).
GetDimensionsCall ==
  /\ probe' = [op |-> "getDimensions", dims |-> getDimensions,
               settled |-> pendingInit = <<>>,
               prev |-> IF probe.op = "getDimensions" /\ probe.settled
                          THEN probe.dims ELSE <<>>]
  /\ cachedDimensions' = getDimensionsCache
  /\ UNCHANGED <<envVars, serverVars, pendingInit, targetWidth, targetHeight,
                 scalingFactor, lastMousePos, pageVars, call, trace, sizes>>

\* A physical point of the screen is scaled to its logical point and the
\* logical point is converted back by toRealCoordinate.
RoundTrip ==
  \E px \in 0..realW, py \in 0..realH :
    LET logical == Pt(scaleDown(px), scaleDown(py)) IN
    /\ probe' = [op |-> "roundTrip", p |-> Pt(px, py), logical |-> logical,
                 back |-> toRealCoordinate(logical)]
    /\ UNCHANGED <<envVars, serverVars,
                   pendingInit, nativeVars, lastMousePos, pageVars,
                   call, trace, sizes>>

\* `x < 0 || x > width || y < 0 || y > height`
outOfBounds(p, w, h) == p.x < 0 \/ p.x > w \/ p.y < 0 \/ p.y > h

\* move(x, y) up to the conversion: a point isWithinBounds accepts against
\* the dimensions getDimensions reports is converted by toRealCoordinate.
AcceptedTarget ==
  /\ pendingInit = <<>>
  /\ \E x \in 0..getDimensions[1], y \in 0..getDimensions[2] :
       /\ ~outOfBounds(Pt(x, y), getDimensions[1], getDimensions[2])
       /\ probe' = [op |-> "move", p |-> Pt(x, y),
                    realTarget |-> toRealCoordinate(Pt(x, y))]
  /\ cachedDimensions' = getDimensionsCache
  /\ UNCHANGED <<envVars, serverVars, pendingInit, targetWidth, targetHeight,
                 scalingFactor, lastMousePos, pageVars, call, trace, sizes>>

\* The resize spec screenshot and screenshotRegion hand to compressImage
\* (passed: whether one is handed over), for every crop of at least 1x1
\* inside the real screen.
ResizeSpec ==
  /\ pendingInit = <<>>
  /\ \/ probe' = [op |-> "screenshot",
                  passed |-> Truthy(targetWidth) /\ Truthy(targetHeight),
                  resize |-> Pt(targetWidth, targetHeight)]
     \/ \E w \in 1..realW, h \in 1..realH :
          probe' = [op |-> "screenshotRegion",
                    passed |-> Truthy(targetWidth),
                    resize |-> Pt(scaleDown(w), scaleDown(h))]
  /\ UNCHANGED <<envVars, serverVars, pendingInit, nativeVars, lastMousePos,
                 pageVars, call, trace, sizes>>

NextScale ==
  \/ initializeScaling
  \/ GetDimensionsCall
  \/ RoundTrip
  \/ AcceptedTarget
  \/ ResizeSpec

SpecScale == InitScale /\ [][NextScale]_vars

----------------------------------------------------------------------------
(* SpecDims: getDimensions over backends whose geometry queries may fail   *)
(* and recover (the display is not up yet, then it is).                    *)

DimsOptions == {<<>>, <<2, 2>>, <<3, 0>>}

InitDims ==
  /\ computerType = "native"
  /\ realW \in 1..MaxReal
  /\ realH \in 1..MaxReal
  /\ monitorOk \in BOOLEAN
  /\ robotOk \in BOOLEAN
  /\ \E opt \in DimsOptions : NativeConstructed(Pt(0, 0), opt)
  /\ width = 0 /\ height = 0
  /\ page = 0 /\ pages = <<>> /\ nextPage = 1 /\ browser = FALSE
  /\ starting = 0
  /\ NoServer
  /\ call = NoCall
  /\ trace = <<>>
  /\ probe = NoProbe
  /\ sizes = NoSizes

\* Monitor.all() / robot.getScreenSize() start or stop answering.
BackendChange ==
  /\ \E m \in BOOLEAN, r \in BOOLEAN :
       /\ <<m, r>> # <<monitorOk, robotOk>>
       /\ monitorOk' = m
       /\ robotOk' = r
  /\ UNCHANGED <<computerType, realW, realH, maxScalingDimension, width,
                 height, serverVars, pendingInit, nativeVars, lastMousePos,
                 pageVars, call, trace, probe, sizes>>

NextDims == initializeScaling \/ GetDimensionsCall \/ BackendChange

SpecDims == InitDims /\ [][NextDims]_vars

\* C16: after scaling initialization every getDimensions call returns what
\* the previous one returned, and that is the scaled dimensions when
\* scaling is active, else the real dimensions, or the fallback 1280x800
\* when the geometry queries failed.
C16_DimensionsMemoized ==
  (probe.op = "getDimensions" /\ probe.settled)
  => /\ probe.prev # <<>> => probe.dims = probe.prev
     /\ \/ probe.dims = <<targetWidth, targetHeight>>
        \/ probe.dims = <<realW, realH>>
        \/ probe.dims = <<FallbackWidth, FallbackHeight>>

\* The configured bounds (0 when absent).
optW == IF maxScalingDimension = <<>> THEN 0 ELSE maxScalingDimension[1]
optH == IF maxScalingDimension = <<>> THEN 0 ELSE maxScalingDimension[2]

\* C5: once scaling initialization has run with a max bound smaller than the
\* real dimension on its axis, the logical dimensions do not exceed any given
\* max bound and the logical aspect ratio is the real one within one pixel.
C5_ScaledWithinMax ==
  (/\ pendingInit = <<>>
   /\ (Truthy(optW) /\ optW < realW) \/ (Truthy(optH) /\ optH < realH))
  => LET d == getDimensions IN
     /\ Truthy(optW) => d[1] <= optW
     /\ Truthy(optH) => d[2] <= optH
     /\ \/ Abs(d[2] * realW - d[1] * realH) <= realW
        \/ Abs(d[1] * realH - d[2] * realW) <= realH

\* C6: with no max bounds, or with every given max bound at least the real
\* dimension on its axis, the scaling factor is 1 and every getDimensions
\* call reports the real dimensions.
C6_NeverUpscales ==
  (/\ Truthy(optW) => optW >= realW
   /\ Truthy(optH) => optH >= realH)
  => /\ scalingFactor[1] = scalingFactor[2]
     /\ probe.op = "getDimensions" => probe.dims = <<realW, realH>>

\* C6 witness: initialization has run with both bounds given and at least
\* the real dimensions, one of them larger, and getDimensions was called.
C6_Witness ==
  /\ pendingInit = <<>>
  /\ Truthy(optW) /\ Truthy(optH)
  /\ optW > realW /\ optH >= realH
  /\ probe.op = "getDimensions"

\* C7 as stated: a physical point scaled to logical and converted back by
\* toRealCoordinate is within one pixel of the original on each axis.
C7_RoundTripWithinOne ==
  probe.op = "roundTrip"
  => /\ Abs(probe.back.x - probe.p.x) <= 1
     /\ Abs(probe.back.y - probe.p.y) <= 1

\* C7 amended: the round trip is within 1/(2 factor) + 1/2 pixels of the
\* original on each axis, and within one pixel when factor > 1/3.
C7_RoundTripBound ==
  probe.op = "roundTrip"
  => LET n == scalingFactor[1]
         d == scalingFactor[2]
         ex == Abs(probe.back.x - probe.p.x)
         ey == Abs(probe.back.y - probe.p.y)
     IN /\ 2 * n * ex <= d + n
        /\ 2 * n * ey <= d + n
        /\ 3 * n > d => (ex <= 1 /\ ey <= 1)

\* C7 witness: a round trip under a factor below 1/3 that is off by more
\* than one pixel.
C7_Witness ==
  /\ probe.op = "roundTrip"
  /\ 3 * scalingFactor[1] < scalingFactor[2]
  /\ Abs(probe.back.x - probe.p.x) > 1

----------------------------------------------------------------------------
(* compressImage                                                           *)

MAX_IMAGE_SIZE == 5 * 1024 * 1024

COMPRESSION_STEPS == <<80, 70, 60, 50, 40, 30>>

FallbackQuality == 20

SizeSpread == 1     \* encoded sizes range over MAX_IMAGE_SIZE -+ SizeSpread

Qualities ==
  {COMPRESSION_STEPS[i] : i \in 1..Len(COMPRESSION_STEPS)} \cup {FallbackQuality}

EncodedSizes ==
  (MAX_IMAGE_SIZE - SizeSpread)..(MAX_IMAGE_SIZE + SizeSpread)

\* A plausible slip: a result of exactly the ceiling is rejected.
withinCeiling_strict(length) == length < MAX_IMAGE_SIZE

\* `buffer.length <= MAX_IMAGE_SIZE`
withinCeiling(length) == length <= MAX_IMAGE_SIZE

RECURSIVE jpegCascade(_, _)
\* The loop over COMPRESSION_STEPS from step i on, then the fallback.
\* sz.png and sz.jpeg[q] are the lengths of the encodings sharp produces
\* from the (possibly resized) source.
jpegCascade(sz, i) ==
  IF i > Len(COMPRESSION_STEPS)
    THEN [format |-> "jpeg", quality |-> FallbackQuality,
          length |-> sz.jpeg[FallbackQuality]]
  ELSE LET quality == COMPRESSION_STEPS[i] IN
       IF withinCeiling(sz.jpeg[quality])
         THEN [format |-> "jpeg", quality |-> quality,
               length |-> sz.jpeg[quality]]
         ELSE jpegCascade(sz, i + 1)

\* compressImage(buffer, resize): the encoding it returns.
compressImage(sz) ==
  IF withinCeiling(sz.png)
    THEN [format |-> "png", quality |-> 0, length |-> sz.png]
    ELSE jpegCascade(sz, 1)

InitCompress ==
  /\ computerType = "native"
  /\ realW = 1 /\ realH = 1
  /\ monitorOk = TRUE /\ robotOk = TRUE
  /\ NativeConstructed(Pt(0, 0), <<>>)
  /\ width = 0 /\ height = 0
  /\ page = 0 /\ pages = <<>> /\ nextPage = 1 /\ browser = FALSE
  /\ starting = 0
  /\ NoServer
  /\ call = NoCall
  /\ trace = <<>>
  /\ probe = NoProbe
  /\ sizes \in [png : EncodedSizes, jpeg : [Qualities -> EncodedSizes]]

\* compressImage is applied to the captured image.
CompressImage ==
  /\ probe.op = "none"
  /\ probe' = [op |-> "compress", result |-> compressImage(sizes)]
  /\ UNCHANGED <<envVars, serverVars,
                 pendingInit, nativeVars, lastMousePos, pageVars,
                 call, trace, sizes>>

\* The mime type the screenshot tool attaches to its image content.
screenshotMimeType == "image/png"

\* The screenshot tool returns what computer.screenshot() produced, i.e. the
\* bytes compressImage chose, as image content.
ScreenshotTool ==
  /\ probe.op = "compress"
  /\ probe' = [op |-> "screenshot", result |-> probe.result,
               mimeType |-> screenshotMimeType]
  /\ UNCHANGED <<envVars, serverVars,
                 pendingInit, nativeVars, lastMousePos, pageVars,
                 call, trace, sizes>>

NextCompress == CompressImage \/ ScreenshotTool

SpecCompress == InitCompress /\ [][NextCompress]_vars

\* The cascade qualities whose encoding is within the ceiling.
FittingSteps ==
  {q \in Qualities \ {FallbackQuality} : sizes.jpeg[q] <= MAX_IMAGE_SIZE}

\* C10: compressImage returns the PNG when it is within the ceiling,
\* otherwise the JPEG of the first cascade quality (the highest, the cascade
\* descending) that is within the ceiling, so the result is within the
\* ceiling whenever the PNG or a cascade step is; when none is, it returns a
\* JPEG of a quality below every cascade quality, whatever its size.
C10_CompressCascade ==
  probe.op = "compress"
  => LET r == probe.result IN
     /\ sizes.png <= MAX_IMAGE_SIZE
        => (r.format = "png" /\ r.length = sizes.png)
     /\ (sizes.png > MAX_IMAGE_SIZE /\ FittingSteps # {})
        => /\ r.format = "jpeg"
           /\ r.quality \in FittingSteps
           /\ \A q \in FittingSteps : q <= r.quality
           /\ r.length = sizes.jpeg[r.quality]
     /\ (sizes.png <= MAX_IMAGE_SIZE \/ FittingSteps # {})
        => r.length <= MAX_IMAGE_SIZE
     /\ (sizes.png > MAX_IMAGE_SIZE /\ FittingSteps = {})
        => /\ r.format = "jpeg"
           /\ \A q \in Qualities \ {FallbackQuality} : r.quality < q
           /\ r.length = sizes.jpeg[r.quality]

\* C10 witness: the PNG and the first cascade steps are over the ceiling and
\* a later step, exactly at the ceiling, is returned.
C10_Witness ==
  /\ probe.op = "compress"
  /\ sizes.png > MAX_IMAGE_SIZE
  /\ probe.result.quality = 60
  /\ probe.result.length = MAX_IMAGE_SIZE

\* C11: the mime type of a screenshot result matches the encoding the
\* compressor chose: PNG bytes are labelled image/png and JPEG bytes
\* image/jpeg.
C11_MimeMatchesEncoding ==
  probe.op = "screenshot"
  => /\ probe.result.format = "png" => probe.mimeType = "image/png"
     /\ probe.result.format = "jpeg" => probe.mimeType = "image/jpeg"

----------------------------------------------------------------------------
(* Tool calls.                                                             *)
(*                                                                         *)
(* A method of a Computer is an async function.  It is modelled as the     *)
(* list of instructions it executes; a step of a call runs instructions    *)
(* up to and including the next one that awaits, as the JavaScript run     *)
(* loop does.  The backend primitives a call issues are appended to trace. *)

NumMid == 1         \* interior points of a generated path
MaxPath == 3        \* longest drag path
MaxKeys == 2        \* longest keypress list
MaxPages == 2       \* pages the browser opens in all
MaxText == 7        \* longest text given to type

TYPING_CHUNK_SIZE == 3
TYPING_DELAY_MS == 100

SeqsUpTo(S, n) == UNION {[1..k -> S] : k \in 0..n}

RECURSIVE Flatten(_)
Flatten(ss) == IF ss = <<>> THEN <<>> ELSE Head(ss) \o Flatten(Tail(ss))

Reverse(s) == [i \in 1..Len(s) |-> s[Len(s) + 1 - i]]

Instr(k, p, q, a, dx, dy, mods) ==
  [k |-> k, p |-> p, q |-> q, a |-> a, dx |-> dx, dy |-> dy, mods |-> mods]
IP(k, p) == Instr(k, p, p, "", 0, 0, <<>>)
IA(k, p, a) == Instr(k, p, p, a, 0, 0, <<>>)
I0(k) == IP(k, Pt(0, 0))

\* A backend primitive: robot.* for the native variant, page.mouse.* /
\* page.keyboard.* / page.screenshot on page pg for the navigable one.
Event(k, p, q, a, dx, dy, mods, pg) ==
  [k |-> k, p |-> p, q |-> q, a |-> a, dx |-> dx, dy |-> dy, mods |-> mods,
   pg |-> pg]

\* A plausible slip: the path is started at the origin instead of at the
\* last pointer position.
generatePath_fromOrigin(start, end, mids) == <<Pt(0, 0)>> \o mids \o <<end>>

\* generatePath(start, end): the Bezier curve evaluated at t = 0 (start), at
\* interior parameters (points that depend on Math.random, here mids) and at
\* t = 1 (end).  The number of interior points is abstracted to NumMid.
generatePath(start, end, mids) == <<start>> \o mids \o <<end>>

\* Where the random anchors may put the curve: its first interior point, on
\* or off the screen.
CurvePoints == {Pt(1, 1), Pt(-1, 3)}

\* The interior points of a generated curve: the anchors are drawn at
\* random, the points are then the samples of that one curve.
Mids == {[i \in 1..NumMid |-> Pt(c.x, c.y + i - 1)] : c \in CurvePoints}

\* text.slice(a, b) for 0 <= a <= b; text is the sequence of its characters.
slice(text, a, b) == SubSeq(text, a + 1, Min(b, Len(text)))

\* A plausible slip: the text is sent as one burst.
typeChunks_burst(text, i) == IF i < Len(text) THEN <<text>> ELSE <<>>

RECURSIVE typeChunks(_, _)
\* The chunks of `for (let i = 0; i < text.length; i += TYPING_CHUNK_SIZE)`
\* from index i on.
typeChunks(text, i) ==
  IF i < Len(text)
    THEN <<slice(text, i, i + TYPING_CHUNK_SIZE)>>
         \o typeChunks(text, i + TYPING_CHUNK_SIZE)
    ELSE <<>>

\* await this.wait(ms)
waitInstr(ms) == Instr("wait", Pt(0, 0), Pt(0, 0), "", ms, 0, <<>>)

(* -- NativeComputer ----------------------------------------------------- *)

\* k.toLowerCase() on the tokens of the model.
toLowerCase(k) ==
  CASE k = "CTRL" -> "ctrl"
    [] k = "A" -> "a"
    [] OTHER -> k

\* KEY_MAP[lower] || lower  (robotjs names)
nativeKeyMap(lower) ==
  CASE lower = "ctrl" -> "control"
    [] lower = "cmd" -> "command"
    [] lower = "esc" -> "escape"
    [] OTHER -> lower

nativeModifiers == {"alt", "control", "shift", "command"}

RECURSIVE classifyKeys(_, _, _)
\* The loop of NativeComputer.keypress: mainKey is "" for null.
classifyKeys(keys, modifiers, mainKey) ==
  IF keys = <<>> THEN [modifiers |-> modifiers, mainKey |-> mainKey]
  ELSE LET mapped == nativeKeyMap(toLowerCase(Head(keys))) IN
       IF mapped \in nativeModifiers /\ mainKey = ""
         THEN classifyKeys(Tail(keys), Append(modifiers, mapped), mainKey)
         ELSE classifyKeys(Tail(keys), modifiers, mapped)


\* await this.isWithinBounds(x, y): getDimensions() is awaited, then the
\* comparison runs.
nativeIsWithinBounds(p) == <<IP("getDimensions", p), IP("checkBounds", p)>>

nativeMove(p) == nativeIsWithinBounds(p) \o <<IP("replay", p)>>

nativeClick(p, button) ==
  nativeIsWithinBounds(p) \o nativeMove(p) \o <<IA("mouseClick", p, button)>>

nativeDoubleClick(p) ==
  nativeIsWithinBounds(p) \o nativeMove(p) \o <<IA("mouseClick", p, "double")>>

\* A plausible slip: the vertical delta is negated on its way to the
\* backend.
nativeScroll_negated(p, dx, dy) ==
  nativeIsWithinBounds(p) \o nativeMove(p)
    \o <<Instr("scrollMouse", p, p, "", dx, -dy, <<>>)>>

nativeScroll(p, dx, dy) ==
  nativeIsWithinBounds(p) \o nativeMove(p)
    \o <<Instr("scrollMouse", p, p, "", dx, dy, <<>>)>>

nativeKeypress(keys) ==
  LET r == classifyKeys(keys, <<>>, "") IN
  IF r.mainKey # ""
    THEN <<Instr("keyTap", Pt(0, 0), Pt(0, 0), r.mainKey, 0, 0, r.modifiers)>>
    ELSE <<>>

\* A plausible slip: the button is released before the last leg of the path.
nativeDrag_earlyUp(path) ==
  IF Len(path) < 2 THEN <<>>
  ELSE Flatten([i \in 1..Len(path) |-> nativeIsWithinBounds(path[i])])
       \o nativeMove(path[1])
       \o <<IA("mouseToggle", path[1], "down")>>
       \o Flatten([i \in 1..(Len(path) - 2) |-> nativeMove(path[i + 1])])
       \o <<IA("mouseToggle", path[Len(path)], "up")>>
       \o nativeMove(path[Len(path)])

\* A plausible slip: the path is not validated before the first motion
\* (each leg is only checked by its own move).
nativeDrag_unvalidated(path) ==
  IF Len(path) < 2 THEN <<>>
  ELSE nativeMove(path[1])
       \o <<IA("mouseToggle", path[1], "down")>>
       \o Flatten([i \in 1..(Len(path) - 1) |-> nativeMove(path[i + 1])])
       \o <<IA("mouseToggle", path[Len(path)], "up")>>

nativeDrag(path) ==
  IF Len(path) < 2 THEN <<>>
  ELSE Flatten([i \in 1..Len(path) |-> nativeIsWithinBounds(path[i])])
       \o nativeMove(path[1])
       \o <<IA("mouseToggle", path[1], "down")>>
       \o Flatten([i \in 1..(Len(path) - 1) |-> nativeMove(path[i + 1])])
       \o <<IA("mouseToggle", path[Len(path)], "up")>>

\* type: robot.typeString(chunk), then the awaited wait, per chunk.
nativeType(text) ==
  LET chunks == typeChunks(text, 0) IN
  Flatten([j \in 1..Len(chunks) |->
             <<Instr("typeString", Pt(0, 0), Pt(0, 0), "", 0, 0, chunks[j]),
               waitInstr(Len(chunks[j]) * TYPING_DELAY_MS)>>])

\* screenshot: the primary monitor is looked up, captureImage and toPng are
\* awaited, then the resize spec is read and the image compressed.
nativeScreenshot == <<I0("capture"), I0("shotResize")>>

\* The two corners are converted and clamped before captureImage is
\* awaited; crop, resize and compression follow.
nativeScreenshotRegion(p1, p2) ==
  <<Instr("region", p1, p2, "", 0, 0, <<>>), I0("crop")>>

(* -- PlaywrightComputer ------------------------------------------------- *)

\* KEY_MAP[k.toLowerCase()] ?? k  (Playwright names)
playwrightKeyMap(k) ==
  LET lower == toLowerCase(k) IN
  CASE lower = "ctrl" -> "Control"
    [] lower = "shift" -> "Shift"
    [] lower = "cmd" -> "Meta"
    [] lower = "esc" -> "Escape"
    [] OTHER -> k

\* A plausible slip: the keys are released in the order they were pressed.
releaseOrder_same(mapped) == mapped

\* mapped.reverse()
releaseOrder(mapped) == Reverse(mapped)

\* move: bounds check, requirePage, generatePath, then one awaited
\* page.mouse.move per point ("path" expands to them) and lastMousePos.
playwrightMove(p) ==
  <<IP("isWithinBounds", p), I0("requirePageMove"), IP("path", p)>>

playwrightClick(p, button) ==
  <<I0("requirePage")>> \o playwrightMove(p) \o <<IA("click", p, button)>>

\* A plausible slip: the double click is issued without moving the pointer
\* to the target first.
playwrightDoubleClick_noMove(p) ==
  <<I0("requirePage"), IA("dblclick", p, "left")>>

playwrightDoubleClick(p) ==
  <<I0("requirePage")>> \o playwrightMove(p) \o <<IA("dblclick", p, "left")>>

playwrightScroll(p, dx, dy) ==
  <<IP("isWithinBounds", p), I0("requirePage")>> \o playwrightMove(p)
    \o <<Instr("wheel", p, p, "", dx, dy, <<>>)>>

playwrightKeypress(keys) ==
  LET mapped == [i \in 1..Len(keys) |-> playwrightKeyMap(keys[i])]
      up == releaseOrder(mapped)
  IN <<I0("requirePage")>>
     \o [i \in 1..Len(mapped) |-> IA("keyDown", Pt(0, 0), mapped[i])]
     \o [i \in 1..Len(up) |-> IA("keyUp", Pt(0, 0), up[i])]

\* type: requirePage, then per chunk the awaited page.keyboard.type(chunk)
\* and the awaited wait.
playwrightType(text) ==
  LET chunks == typeChunks(text, 0) IN
  <<I0("requirePage")>>
  \o Flatten([j \in 1..Len(chunks) |->
                <<Instr("kbType", Pt(0, 0), Pt(0, 0), "", 0, 0, chunks[j]),
                  waitInstr(Len(chunks[j]) * TYPING_DELAY_MS)>>])

playwrightDrag(path) ==
  IF Len(path) = 0 THEN <<>>
  ELSE [i \in 1..Len(path) |-> IP("isWithinBounds", path[i])]
       \o <<I0("requirePage")>>
       \o playwrightMove(path[1])
       \o <<IA("mouseDown", path[1], "left")>>
       \o Flatten([i \in 1..(Len(path) - 1) |-> playwrightMove(path[i + 1])])
       \o <<IA("mouseUp", path[Len(path)], "left")>>

\* A plausible slip: the page is used without requirePage().
playwrightScreenshot_unchecked == <<I0("shot")>>

\* screenshot: requirePage, then the awaited page.screenshot(), then the
\* compression.
playwrightScreenshot == <<I0("requirePage"), I0("shot")>>

\* goto: requirePage, then the awaited page.goto(url) inside try / catch.
playwrightGoto(url) == <<I0("requirePage"), IA("goto", Pt(0, 0), url)>>

playwrightBack == <<I0("requirePage"), I0("goBack")>>

playwrightForward == <<I0("requirePage"), I0("goForward")>>

playwrightScreenshotRegion(p1, p2) ==
  <<IP("isWithinBounds", p1), IP("isWithinBounds", p2), I0("requirePage"),
    Instr("clip", p1, p2, "", 0, 0, <<>>)>>

(* -- Execution ---------------------------------------------------------- *)

NoPoint == Pt(0, 0)
NoRect == [x |-> 0, y |-> 0, w |-> 0, h |-> 0]

InPages(pg) == \E i \in 1..Len(pages) : pages[i] = pg

\* Instructions after which the function awaits (or the async function that
\* ran them returns to an awaiting caller).
AwaitKinds ==
  {"getDimensions", "checkBounds", "replay", "region",
   "mouseMove", "click", "dblclick", "wheel", "mouseDown", "mouseUp",
   "keyDown", "keyUp", "clip", "kbType", "wait",
   "capture", "shot", "goto", "goBack", "goForward"}

Fail(m, status) == [m EXCEPT !.c.status = status]

Emit(m, e) == [m EXCEPT !.tr = Append(m.tr, e)]

\* One instruction of the native variant.  m holds the call (c), the trace
\* (tr), lastMousePos (lmp) and cachedDimensions (cache).
ExecNative(m, i, mids) ==
  CASE i.k = "getDimensions" ->
         [m EXCEPT !.c.dims = getDimensions, !.cache = getDimensionsCache]
    [] i.k = "checkBounds" ->
         IF outOfBounds(i.p, m.c.dims[1], m.c.dims[2])
           THEN Fail(m, "bounds") ELSE m
    [] i.k = "replay" ->
         LET realTarget == toRealCoordinate(i.p)
             trajectory == generatePath(m.lmp, realTarget, mids)
         IN [m EXCEPT
               !.tr = m.tr \o [j \in 1..Len(trajectory) |->
                         Event("moveMouse", trajectory[j], NoPoint, "", 0, 0,
                               <<>>, 0)],
               !.lmp = realTarget,
               !.c.factor = scalingFactor]
    [] i.k \in {"mouseClick", "mouseToggle", "scrollMouse", "keyTap",
                "typeString", "wait"} ->
         Emit(m, Event(i.k, NoPoint, NoPoint, i.a, i.dx, i.dy, i.mods, 0))
    [] i.k = "region" ->
         LET realP1 == toRealCoordinate(i.p)
             realP2 == toRealCoordinate(i.q)
             xMin == Max(0, Min(realP1.x, realP2.x))
             yMin == Max(0, Min(realP1.y, realP2.y))
             xMax == Min(realW, Max(realP1.x, realP2.x))
             yMax == Min(realH, Max(realP1.y, realP2.y))
             w == Max(1, xMax - xMin)
             h == Max(1, yMax - yMin)
         IN IF ~monitorOk THEN Fail(m, "nomonitor")
            ELSE [m EXCEPT !.c.rect = [x |-> xMin, y |-> yMin,
                                       w |-> w, h |-> h],
                           !.c.factor = scalingFactor]
    [] i.k = "capture" ->
         IF ~monitorOk THEN Fail(m, "nomonitor")
         ELSE Emit(m, Event("captureImage", NoPoint, NoPoint, "", 0, 0,
                            <<>>, 0))
    [] i.k = "shotResize" ->
         [m EXCEPT !.c.resize = IF Truthy(targetWidth) /\ Truthy(targetHeight)
                                  THEN Pt(targetWidth, targetHeight)
                                  ELSE NoPoint,
                   !.c.result = "image"]
    [] i.k = "crop" ->
         LET r == m.c.rect
             resize == IF Truthy(targetWidth)
                         THEN Pt(scaleDown(r.w), scaleDown(r.h))
                         ELSE NoPoint
         IN [Emit(m, Event("crop", Pt(r.x, r.y), Pt(r.w, r.h), "", 0, 0,
                           <<>>, 0))
               EXCEPT !.c.resize = resize, !.c.result = "image"]

\* One instruction of the navigable variant.
ExecPlaywright(m, i, mids) ==
  CASE i.k = "isWithinBounds" ->
         IF outOfBounds(i.p, width, height) THEN Fail(m, "bounds") ELSE m
    [] i.k = "requirePage" ->
         IF page = 0 THEN Fail(m, "nopage") ELSE [m EXCEPT !.c.pg = page]
    [] i.k = "requirePageMove" ->
         IF page = 0 THEN Fail(m, "nopage") ELSE [m EXCEPT !.c.ipg = page]
    [] i.k = "path" ->
         LET trajectory == generatePath(m.lmp, i.p, mids) IN
         [m EXCEPT !.c.todo =
            [j \in 1..Len(trajectory) |-> IP("mouseMove", trajectory[j])]
              \o <<IP("setLast", i.p)>> \o m.c.todo]
    [] i.k = "mouseMove" ->
         IF ~InPages(m.c.ipg) THEN Fail(m, "closed")
         ELSE Emit(m, Event("move", i.p, NoPoint, "", 0, 0, <<>>, m.c.ipg))
    [] i.k = "setLast" -> [m EXCEPT !.lmp = i.p]
    [] i.k = "kbType" ->
         IF ~InPages(m.c.pg) THEN Fail(m, "closed")
         ELSE Emit(m, Event("type", NoPoint, NoPoint, "", 0, 0, i.mods,
                            m.c.pg))
    [] i.k = "wait" ->
         Emit(m, Event("wait", NoPoint, NoPoint, "", i.dx, 0, <<>>, 0))
    [] i.k \in {"click", "dblclick", "wheel", "mouseDown", "mouseUp",
                "keyDown", "keyUp"} ->
         IF ~InPages(m.c.pg) THEN Fail(m, "closed")
         ELSE Emit(m, Event(i.k, i.p, NoPoint, i.a, i.dx, i.dy, <<>>, m.c.pg))
    [] i.k = "shot" ->
         IF ~InPages(m.c.pg) THEN Fail(m, "closed")
         ELSE [Emit(m, Event("screenshot", NoPoint, Pt(width, height),
                             "full", 0, 0, <<>>, m.c.pg))
                 EXCEPT !.c.result = "image"]
    [] i.k = "goto" ->
         \* an error of page.goto is caught and logged
         IF ~InPages(m.c.pg) THEN m
         ELSE Emit(m, Event("goto", NoPoint, NoPoint, i.a, 0, 0, <<>>,
                            m.c.pg))
    [] i.k \in {"goBack", "goForward"} ->
         IF ~InPages(m.c.pg) THEN Fail(m, "closed")
         ELSE Emit(m, Event(i.k, NoPoint, NoPoint, "", 0, 0, <<>>, m.c.pg))
    [] i.k = "clip" ->
         LET xMin == Max(0, Min(i.p.x, i.q.x))
             yMin == Max(0, Min(i.p.y, i.q.y))
             w == Max(1, Abs(i.p.x - i.q.x))
             h == Max(1, Abs(i.p.y - i.q.y))
         IN IF ~InPages(m.c.pg) THEN Fail(m, "closed")
            ELSE [Emit(m, Event("screenshot", Pt(xMin, yMin), Pt(w, h), "",
                               0, 0, <<>>, m.c.pg))
                    EXCEPT !.c.rect = [x |-> xMin, y |-> yMin,
                                       w |-> w, h |-> h],
                           !.c.result = "image"]

RECURSIVE Run(_, _)
\* Runs the call until it awaits, throws or returns.
Run(m, mids) ==
  IF m.c.todo = <<>> THEN [m EXCEPT !.c.pc = "done"]
  ELSE LET i == Head(m.c.todo)
           m0 == [m EXCEPT !.c.todo = Tail(m.c.todo)]
           m1 == IF computerType = "native" THEN ExecNative(m0, i, mids)
                 ELSE ExecPlaywright(m0, i, mids)
       IN IF m1.c.status # "ok" \/ m1.c.todo = <<>>
            THEN [m1 EXCEPT !.c.pc = "done"]
          ELSE IF i.k \in AwaitKinds THEN [m1 EXCEPT !.c.at = i.k]
          ELSE Run(m1, mids)

Machine == [c |-> call, tr |-> trace, lmp |-> lastMousePos,
            cache |-> cachedDimensions]

\* The machine's state becomes the next state.
Commit(m) ==
  /\ call' = m.c
  /\ trace' = m.tr
  /\ lastMousePos' = m.lmp
  /\ cachedDimensions' = m.cache
  /\ UNCHANGED <<envVars, serverVars, pendingInit, targetWidth, targetHeight,
                 scalingFactor, pageVars, probe, sizes>>

\* The dimensions getDimensions() reports for the instance.
LogicalDimensions ==
  IF computerType = "native" THEN getDimensions ELSE <<width, height>>

\* The dispatcher calls a method: the call runs to its first await.  The
\* previous call has returned (calls are dispatched one at a time) and no
\* start() is awaiting (the caller awaits start() before it uses the
\* computer).
Invoke(op, pts, keys, a, dx, dy, program) ==
  /\ call.pc = "idle"
  /\ starting = 0
  /\ \E mids \in Mids :
       Commit(Run([Machine EXCEPT
                     !.c = [pc |-> "run", op |-> op, pts |-> pts,
                            keys |-> keys, a |-> a, dx |-> dx, dy |-> dy,
                            todo |-> program, status |-> "ok", at |-> "",
                            dims |-> <<0, 0>>, dims0 |-> LogicalDimensions,
                            pg |-> 0, ipg |-> 0, page0 |-> page,
                            last0 |-> lastMousePos, factor |-> <<>>,
                            rect |-> NoRect, resize |-> NoPoint,
                            result |-> ""],
                     !.tr = <<>>], mids))

\* The call in flight resumes after its await.  A continuation of a native
\* call is queued behind that of initializeScaling.
Resume ==
  /\ call.pc = "run"
  /\ computerType = "native" => pendingInit = <<>>
  /\ \E mids \in Mids : Commit(Run(Machine, mids))

\* The call has returned or thrown: the dispatcher sends the tool result.
Return ==
  /\ call.pc = "done"
  /\ call' = NoCall
  /\ trace' = <<>>
  /\ UNCHANGED <<envVars, serverVars,
                 pendingInit, nativeVars, lastMousePos, pageVars,
                 probe, sizes>>

(* -- The methods of the Computer interface ------------------------------ *)

IsNative == computerType = "native"

\* Arguments of the calls: points inside, on the edge of and outside the
\* logical screens of the model; buttons; wheel deltas; key tokens.
ArgPoints == {Pt(0, 0), Pt(2, 1), Pt(4, 2), Pt(5, 2), Pt(-1, 1), Pt(1, 3)}
DragPoints == {Pt(0, 0), Pt(2, 1), Pt(5, 2)}
\* Drag paths of up to MaxPath points, consecutive points distinct.
DragPaths ==
  {path \in SeqsUpTo(DragPoints, MaxPath) :
     \A i \in 1..(Len(path) - 1) : path[i] # path[i + 1]}
Buttons == {"left", "right"}
WheelDeltas == {<<0, -1>>, <<1, 2>>}
KeyTokens == {"ctrl", "CTRL", "shift", "a", "b"}

Move ==
  \E p \in ArgPoints :
    Invoke("move", <<p>>, <<>>, "", 0, 0,
           IF IsNative THEN nativeMove(p) ELSE playwrightMove(p))

Click ==
  \E p \in ArgPoints, button \in Buttons :
    Invoke("click", <<p>>, <<>>, button, 0, 0,
           IF IsNative THEN nativeClick(p, button)
           ELSE playwrightClick(p, button))

DoubleClick ==
  \E p \in ArgPoints :
    Invoke("doubleClick", <<p>>, <<>>, "", 0, 0,
           IF IsNative THEN nativeDoubleClick(p)
           ELSE playwrightDoubleClick(p))

Scroll ==
  \E p \in ArgPoints, d \in WheelDeltas :
    Invoke("scroll", <<p>>, <<>>, "", d[1], d[2],
           IF IsNative THEN nativeScroll(p, d[1], d[2])
           ELSE playwrightScroll(p, d[1], d[2]))

Keypress ==
  \E keys \in SeqsUpTo(KeyTokens, MaxKeys) :
    Invoke("keypress", <<>>, keys, "", 0, 0,
           IF IsNative THEN nativeKeypress(keys)
           ELSE playwrightKeypress(keys))

\* The texts given to type: the prefixes of one text of distinct
\* characters.
Alphabet == <<"a", "b", "c", "d", "e", "f", "g", "h", "i", "j">>
Texts == {SubSeq(Alphabet, 1, n) : n \in 0..MaxText}

\* type(text); the text is kept in the call's `keys`.
Type ==
  \E text \in Texts :
    Invoke("type", <<>>, text, "", 0, 0,
           IF IsNative THEN nativeType(text) ELSE playwrightType(text))

Drag ==
  \E path \in DragPaths :
    Invoke("drag", path, <<>>, "", 0, 0,
           IF IsNative THEN nativeDrag(path) ELSE playwrightDrag(path))

Screenshot ==
  Invoke("screenshot", <<>>, <<>>, "", 0, 0,
         IF IsNative THEN nativeScreenshot ELSE playwrightScreenshot)

\* The extra browser tools exist for the navigable variant only.
Urls == {"https://example.com"}

Goto ==
  /\ ~IsNative
  /\ \E url \in Urls :
       Invoke("goto", <<>>, <<>>, url, 0, 0, playwrightGoto(url))

Back ==
  /\ ~IsNative
  /\ Invoke("back", <<>>, <<>>, "", 0, 0, playwrightBack)

Forward ==
  /\ ~IsNative
  /\ Invoke("forward", <<>>, <<>>, "", 0, 0, playwrightForward)

ScreenshotRegion ==
  \E p1 \in ArgPoints, p2 \in ArgPoints :
    Invoke("screenshotRegion", <<p1, p2>>, <<>>, "", 0, 0,
           IF IsNative THEN nativeScreenshotRegion(p1, p2)
           ELSE playwrightScreenshotRegion(p1, p2))

(* -- PlaywrightComputer lifecycle and page tracking --------------------- *)

\* start(): launches the browser, creates the context, registers
\* handleNewPage for its "page" event and calls context.newPage().  The
\* context reports the first page before newPage() resolves, so
\* handleNewPage has run for it when start() is still awaiting.
start ==
  /\ ~IsNative
  /\ ~browser
  /\ starting = 0
  /\ nextPage <= MaxPages
  /\ browser' = TRUE
  /\ pages' = <<nextPage>>
  /\ page' = nextPage
  /\ starting' = nextPage
  /\ nextPage' = nextPage + 1
  /\ UNCHANGED <<envVars, serverVars,
                 pendingInit, nativeVars, lastMousePos, call, trace,
                 probe, sizes>>

\* start() resumes: `this.page = await this.context.newPage()` assigns the
\* first page and registers a second close handler for it.
startResume ==
  /\ starting # 0
  /\ page' = starting
  /\ starting' = 0
  /\ UNCHANGED <<envVars, serverVars,
                 pendingInit, nativeVars, lastMousePos, pages, nextPage,
                 browser, call, trace, probe, sizes>>

\* stop(): closes the browser.  The caller has awaited start().
stop ==
  /\ ~IsNative
  /\ browser
  /\ starting = 0
  /\ browser' = FALSE
  /\ pages' = <<>>
  /\ page' = 0
  /\ UNCHANGED <<envVars, serverVars,
                 pendingInit, nativeVars, lastMousePos, nextPage, starting,
                 call, trace, probe, sizes>>

\* The context reports a new page (popup, target=_blank).
handleNewPage ==
  /\ ~IsNative
  /\ browser
  /\ nextPage <= MaxPages
  /\ pages' = Append(pages, nextPage)
  /\ page' = nextPage
  /\ nextPage' = nextPage + 1
  /\ UNCHANGED <<envVars, serverVars,
                 pendingInit, nativeVars, lastMousePos, browser, starting,
                 call, trace, probe, sizes>>

\* A page closes: it leaves context.pages() and its close handlers run (the
\* second handler of the first page finds this.page already changed, or
\* computes the same page again).
handlePageClose ==
  /\ ~IsNative
  /\ \E k \in 1..Len(pages) :
       LET closedPage == pages[k]
           rest == SubSeq(pages, 1, k - 1) \o SubSeq(pages, k + 1, Len(pages))
       IN /\ pages' = rest
          /\ page' = IF page # closedPage THEN page
                     ELSE IF Len(rest) > 0 THEN rest[Len(rest)] ELSE 0
  /\ UNCHANGED <<envVars, serverVars,
                 pendingInit, nativeVars, lastMousePos, nextPage,
                 browser, starting, call, trace, probe, sizes>>

\* C20: once start() has returned, the active page is the most recently
\* opened page that is still open, or absent when no page is open.
C20_ActivePageIsNewestOpen ==
  (~IsNative /\ starting = 0)
  => page = (IF pages = <<>> THEN 0 ELSE pages[Len(pages)])

(* -- Spec: one Computer instance behind the dispatcher ------------------ *)

Screens == {<<4, 2>>}
NativeOptions == {<<>>, <<2, 1>>, <<3, 0>>, <<9, 9>>}
StartPositions == {Pt(0, 0), Pt(3, 1)}
Viewports == {<<4, 2>>}

Init ==
  /\ computerType \in {"native", "playwright"}
  /\ monitorOk = TRUE
  /\ robotOk = TRUE
  /\ page = 0 /\ pages = <<>> /\ nextPage = 1 /\ browser = FALSE
  /\ starting = 0
  /\ NoServer
  /\ call = NoCall
  /\ trace = <<>>
  /\ probe = NoProbe
  /\ sizes = NoSizes
  /\ IF computerType = "native"
       THEN /\ \E scr \in Screens : realW = scr[1] /\ realH = scr[2]
            /\ width = 0 /\ height = 0
            /\ \E pos \in StartPositions, opt \in NativeOptions :
                 NativeConstructed(pos, opt)
       ELSE /\ \E vp \in Viewports :
                 /\ width = vp[1] /\ height = vp[2]
                 /\ realW = vp[1] /\ realH = vp[2]
            /\ NativeConstructed(Pt(0, 0), <<>>)

Next ==
  \/ initializeScaling
  \/ Move
  \/ Click
  \/ DoubleClick
  \/ Scroll
  \/ Keypress
  \/ Drag
  \/ Type
  \/ ScreenshotRegion
  \/ Screenshot
  \/ Goto
  \/ Back
  \/ Forward
  \/ Resume
  \/ Return
  \/ start
  \/ startResume
  \/ stop
  \/ handleNewPage
  \/ handlePageClose

Spec == Init /\ [][Next]_vars

\* The scaling factor the constructor's option asks for: the one
\* initializeScaling has set, or will set when it resumes.
configuredFactor ==
  IF pendingInit = <<>> THEN scalingFactor
  ELSE LET c == pendingInit[1]
       IN initializeScalingResult(c.maxW, c.maxH, c.realW, c.realH).f

\* The logical dimensions that go with a scaling factor.
dimensionsFor(f) ==
  IF f[1] < f[2] THEN <<Round(realW * f[1], f[2]), Round(realH * f[1], f[2])>>
  ELSE <<realW, realH>>

\* C18: a call on a NativeComputer constructed with maxScalingDimension
\* converts coordinates with the configured scaling factor and checks
\* bounds against the logical dimensions of that factor, also when it is
\* invoked before the scaling initialization has finished.
C18_ScalingSettledBeforeCalls ==
  (IsNative /\ maxScalingDimension # <<>> /\ call.pc # "idle"
     /\ call.factor # <<>>)
  => /\ call.factor = configuredFactor
     /\ call.dims # <<0, 0>> => call.dims = dimensionsFor(call.factor)

\* C19: on the navigable variant all the backend primitives one call issues
\* target the same page, whatever pages open or close while it is in
\* flight (pg is 0 for the timer of wait, which targets no page).
C19_OnePagePerCall ==
  ~IsNative
  => \A i, j \in 1..Len(trace) :
       (trace[i].pg # 0 /\ trace[j].pg # 0) => trace[i].pg = trace[j].pg

----------------------------------------------------------------------------
(* SpecPath: generatePath computed as mouse-path.ts computes it.  A number *)
(* is a fraction <<n, d>>; the fraction 0/0 is NaN, as in `0 / 0`.  The    *)
(* inputs are chosen so that the square root, the logarithm and the anchor *)
(* offsets are exact: start and end lie on a common axis at distance 0,    *)
(* 100 or 300, speeds are hundredths, and Math.random() is 0 or 1/2.       *)

MIN_SPREAD == 2
MAX_SPREAD == 200
MIN_STEPS == 25
fittsTargetWidth == 100

\* Math.ceil(a / b) for b > 0.
Ceil(a, b) == -((-a) \div b)

\* Math.sqrt(n) for the perfect squares the inputs produce.
Sqrt(n) == CHOOSE r \in 0..300 : r * r = n

RECURSIVE Log2(_)
\* Math.log2(n) for n a power of two.
Log2(n) == IF n <= 1 THEN 0 ELSE 1 + Log2(n \div 2)

IsNaN(v) == v[2] = 0

\* getBezierPoint(t, p0, p1, p2, p3) for t = t[1] / t[2].
getBezierPoint(t, p0, p1, p2, p3) ==
  LET i == t[1]
      c == t[2] - t[1]
      den == t[2] * t[2] * t[2]
      at(a0, a1, a2, a3) ==
        <<c * c * c * a0 + 3 * c * c * i * a1 + 3 * c * i * i * a2
            + i * i * i * a3, den>>
  IN [x |-> at(p0.x, p1.x, p2.x, p3.x), y |-> at(p0.y, p1.y, p2.y, p3.y)]

\* getRandomAnchor(start, end, spread, side) with the two Math.random()
\* draws t / 2 and o / 2.
getRandomAnchor(from, end, spread, side, t, o) ==
  LET dx == end.x - from.x
      dy == end.y - from.y
      onLine == Pt(from.x + (t * dx) \div 2, from.y + (t * dy) \div 2)
      mag == Sqrt(dx * dx + dy * dy)
  IN IF mag = 0 THEN onLine
     ELSE LET perp == Pt(dy \div mag, (-dx) \div mag)
              offset == (o * spread * side) \div 2
          IN Pt(onLine.x + perp.x * offset, onLine.y + perp.y * offset)

\* generateAnchors(start, end, spread): both anchors on one side of the
\* line, sorted by x.
generateAnchors(from, end, spread, rnd) ==
  LET p1 == getRandomAnchor(from, end, spread, rnd.side, rnd.t1, rnd.o1)
      p2 == getRandomAnchor(from, end, spread, rnd.side, rnd.t2, rnd.o2)
  IN IF p1.x <= p2.x THEN <<p1, p2>> ELSE <<p2, p1>>

\* The step count of generatePath; speed is in hundredths.
pathSteps(from, end, options, rnd) ==
  LET dx == end.x - from.x
      dy == end.y - from.y
      distance == Sqrt(dx * dx + dy * dy)
      fitts == Log2(distance \div fittsTargetWidth + 1)
      speed == IF options.moveSpeed # <<>> THEN options.moveSpeed[1]
               ELSE rnd.speed
  IN Ceil((100 * fitts + speed * MIN_STEPS) * 3, 100)

\* generatePath(start, end, options): the points of the curve at
\* t = i / steps for i = 0..steps.
generatePathExact(from, end, options, rnd) ==
  LET dx == end.x - from.x
      dy == end.y - from.y
      distance == Sqrt(dx * dx + dy * dy)
      spread == IF options.spreadOverride # <<>>
                  THEN options.spreadOverride[1]
                  ELSE Max(MIN_SPREAD, Min(MAX_SPREAD, distance))
      anchors == generateAnchors(from, end, spread, rnd)
      steps == pathSteps(from, end, options, rnd)
  IN [k \in 1..(steps + 1) |->
        getBezierPoint(<<k - 1, steps>>, from, anchors[1], anchors[2], end)]

PathStarts == {Pt(0, 0), Pt(100, 50)}
PathDeltas == {Pt(0, 0), Pt(100, 0), Pt(0, 300), Pt(-100, 0)}
SpreadOverrides == {<<>>, <<0>>, <<4>>}
MoveSpeeds == {<<>>, <<-4>>, <<0>>, <<50>>, <<100>>}
PathOptions ==
  [spreadOverride : SpreadOverrides, moveSpeed : MoveSpeeds]

\* The draws of Math.random(): the side, the two draws of each anchor (in
\* halves) and the default speed in [0.5, 0.8) (in hundredths).
PathRandoms ==
  [side : {1, -1}, t1 : {0, 1}, o1 : {0, 1}, t2 : {0, 1}, o2 : {0, 1},
   speed : {50, 79}]

\* The arguments of one generatePath call and the draws of Math.random()
\* during it.
InitPath ==
  /\ computerType = "native"
  /\ \E scr \in Screens : realW = scr[1] /\ realH = scr[2]
  /\ monitorOk = TRUE
  /\ robotOk = TRUE
  /\ NativeConstructed(Pt(0, 0), <<>>)
  /\ width = 0 /\ height = 0
  /\ page = 0 /\ pages = <<>> /\ nextPage = 1 /\ browser = FALSE
  /\ starting = 0
  /\ NoServer
  /\ call = NoCall
  /\ trace = <<>>
  /\ \E from \in PathStarts, delta \in PathDeltas, options \in PathOptions,
        rnd \in PathRandoms :
       probe = [op |-> "pathArgs", start |-> from,
                end |-> Pt(from.x + delta.x, from.y + delta.y),
                options |-> options, rnd |-> rnd]
  /\ sizes = NoSizes

\* generatePath(start, end, options) is called.
GeneratePath ==
  /\ probe.op = "pathArgs"
  /\ probe' = [op |-> "generatePath", start |-> probe.start,
               end |-> probe.end, options |-> probe.options,
               steps |-> pathSteps(probe.start, probe.end, probe.options,
                                   probe.rnd),
               points |-> generatePathExact(probe.start, probe.end,
                                            probe.options, probe.rnd)]
  /\ UNCHANGED <<envVars, serverVars, pendingInit, nativeVars, lastMousePos,
                 pageVars, call, trace, sizes>>

NextPath == GeneratePath

SpecPath == InitPath /\ [][NextPath]_vars

\* C17: generatePath returns steps + 1 >= 1 points, none with a NaN
\* coordinate, the last one exactly end, for every start and end and every
\* option override.
C17_PathEndsAtEnd ==
  probe.op = "generatePath"
  => LET points == probe.points
         n == Len(points)
     IN /\ n >= 1
        /\ n = probe.steps + 1
        /\ \A k \in 1..n : ~IsNaN(points[k].x) /\ ~IsNaN(points[k].y)
        /\ points[n].x[1] = probe.end.x * points[n].x[2]
        /\ points[n].y[1] = probe.end.y * points[n].y[2]

----------------------------------------------------------------------------
(* SpecServer: the entry points.  index.ts main (stdio) creates the        *)
(* computer, awaits start() for the navigable variant and then connects    *)
(* the transport; http.ts creates the computer at module load and listens, *)
(* every POST /mcp registering the tools on the one shared computer.  The  *)
(* handler of a request calls the method and awaits it; nothing in either  *)
(* entry point queues a request behind the one in flight.                  *)

RequestIds == {1, 2}
RequestPoints == {Pt(2, 1), Pt(0, 0)}
ServerOptions == {<<>>, <<2, 1>>}

InitServer ==
  /\ entry \in {"stdio", "http"}
  /\ serverPc = "boot"
  /\ requests = [id \in RequestIds |-> NoCall]
  /\ backend = <<>>
  /\ computerType \in {"native", "playwright"}
  /\ monitorOk = TRUE
  /\ robotOk = TRUE
  /\ page = 0 /\ pages = <<>> /\ nextPage = 1 /\ browser = FALSE
  /\ starting = 0
  /\ call = NoCall
  /\ trace = <<>>
  /\ probe = NoProbe
  /\ sizes = NoSizes
  /\ \E scr \in Screens : realW = scr[1] /\ realH = scr[2]
  /\ IF computerType = "native"
       THEN /\ width = 0 /\ height = 0
            /\ \E opt \in ServerOptions :
                 /\ entry = "stdio" => opt = <<>>
                 /\ NativeConstructed(Pt(0, 0), opt)
       ELSE /\ width = realW /\ height = realH
            /\ NativeConstructed(Pt(0, 0), <<>>)

\* main: `await computer.start()` returns.
MainStart ==
  /\ entry = "stdio"
  /\ serverPc = "boot"
  /\ ~IsNative
  /\ browser' = TRUE
  /\ pages' = <<nextPage>>
  /\ page' = nextPage
  /\ nextPage' = nextPage + 1
  /\ serverPc' = "started"
  /\ UNCHANGED <<envVars, pendingInit, nativeVars, lastMousePos, starting,
                 call, trace, probe, sizes, entry, requests, backend>>

\* main: `await computer.start()` throws; main().catch exits the process.
MainStartFails ==
  /\ entry = "stdio"
  /\ serverPc = "boot"
  /\ ~IsNative
  /\ serverPc' = "aborted"
  /\ UNCHANGED <<envVars, pendingInit, nativeVars, lastMousePos, pageVars,
                 call, trace, probe, sizes, entry, requests, backend>>

\* server.connect(transport) / app.listen(PORT): requests are accepted.
\* The microtasks of the constructor have run by the first request.
Listen ==
  /\ pendingInit = <<>>
  /\ \/ entry = "http" /\ serverPc = "boot"
     \/ entry = "stdio" /\ IsNative /\ serverPc = "boot"
     \/ entry = "stdio" /\ ~IsNative /\ serverPc = "started"
  /\ serverPc' = "serving"
  /\ UNCHANGED <<envVars, pendingInit, nativeVars, lastMousePos, pageVars,
                 call, trace, probe, sizes, entry, requests, backend>>

RequestMachine(id) ==
  [c |-> requests[id], tr |-> <<>>, lmp |-> lastMousePos,
   cache |-> cachedDimensions]

\* The primitives of a step of request id reach the backend.
CommitRequest(id, m) ==
  /\ requests' = [requests EXCEPT ![id] = m.c]
  /\ backend' = backend \o [j \in 1..Len(m.tr) |-> [id |-> id, e |-> m.tr[j]]]
  /\ lastMousePos' = m.lmp
  /\ cachedDimensions' = m.cache
  /\ UNCHANGED <<envVars, pendingInit, targetWidth, targetHeight,
                 scalingFactor, pageVars, call, trace, probe, sizes, entry,
                 serverPc>>

\* An await that suspends the call until a later turn of the event loop (a
\* timer, the capture thread, the browser); the other awaits of the native
\* variant are of promises already resolved and resume in the same turn.
YieldsToEventLoop(k) ==
  IF IsNative THEN k \in {"wait", "capture", "region"} ELSE TRUE

RECURSIVE RunTurn(_, _)
\* Runs the call until it yields to the event loop, throws or returns.
RunTurn(m, mids) ==
  LET m1 == Run(m, mids) IN
  IF m1.c.pc = "done" \/ YieldsToEventLoop(m1.c.at) THEN m1
  ELSE RunTurn(m1, mids)

RequestTexts == {<<"a", "b", "c", "d">>}

\* The tools the requests call: click and type.
RequestCalls ==
  {[op |-> "click", pts |-> <<p>>, keys |-> <<>>, a |-> "left"] :
     p \in RequestPoints}
  \cup {[op |-> "type", pts |-> <<>>, keys |-> t, a |-> ""] :
          t \in RequestTexts}

RequestProgram(r) ==
  IF r.op = "click"
    THEN IF IsNative THEN nativeClick(r.pts[1], r.a)
         ELSE playwrightClick(r.pts[1], r.a)
    ELSE IF IsNative THEN nativeType(r.keys) ELSE playwrightType(r.keys)

\* A tools/call request arrives: its handler calls the method, which runs
\* until it yields to the event loop.
Request(id) ==
  /\ serverPc = "serving"
  /\ requests[id].pc = "idle"
  /\ \E r \in RequestCalls, mids \in Mids :
       CommitRequest(id,
         RunTurn([RequestMachine(id) EXCEPT
                    !.c = [pc |-> "run", op |-> r.op, pts |-> r.pts,
                           keys |-> r.keys, a |-> r.a, dx |-> 0, dy |-> 0,
                           todo |-> RequestProgram(r),
                           status |-> "ok", at |-> "", dims |-> <<0, 0>>,
                           dims0 |-> LogicalDimensions, pg |-> 0, ipg |-> 0,
                           page0 |-> page, last0 |-> lastMousePos,
                           factor |-> <<>>, rect |-> NoRect, resize |-> NoPoint,
                           result |-> ""]], mids))

\* The method called for request id resumes in a later turn.
Continue(id) ==
  /\ requests[id].pc = "run"
  /\ \E mids \in Mids : CommitRequest(id, RunTurn(RequestMachine(id), mids))

NextServer ==
  \/ initializeScaling
  \/ MainStart
  \/ MainStartFails
  \/ Listen
  \/ \E id \in RequestIds : Request(id)
  \/ \E id \in RequestIds : Continue(id)

SpecServer == InitServer /\ [][NextServer]_vars

\* C14: behind the HTTP entry point the backend never observes the
\* primitives of two tool calls interleaved: between two primitives of one
\* call there is none of another call.
C14_CallsSerialized ==
  entry = "http"
  => \A i, j, k \in 1..Len(backend) :
       (i < j /\ j < k /\ backend[i].id = backend[k].id)
       => backend[j].id = backend[i].id

\* C15: no tool call reaches a PlaywrightComputer whose start() has not
\* completed.
C15_StartedBeforeCalls ==
  \A id \in RequestIds :
    (~IsNative /\ requests[id].pc # "idle") => browser

----------------------------------------------------------------------------
(* Properties of the calls                                                 *)

PointerOps == {"move", "click", "doubleClick", "scroll", "drag"}

\* A coordinate is negative or greater than the dimension on its axis.
Outside(p, dims) == p.x < 0 \/ p.x > dims[1] \/ p.y < 0 \/ p.y > dims[2]

SomeOutside(pts, dims) == \E i \in 1..Len(pts) : Outside(pts[i], dims)

IsMoveEvent(e) == e.k \in {"moveMouse", "move"}
IsPressEvent(e) == (e.k = "mouseToggle" /\ e.a = "down") \/ e.k = "mouseDown"
IsReleaseEvent(e) == (e.k = "mouseToggle" /\ e.a = "up") \/ e.k = "mouseUp"

\* The physical point the backend is sent for a logical point.
Physical(p) == IF IsNative THEN toRealCoordinate(p) ELSE p

\* C1: a pointer operation given a coordinate that is negative or greater
\* than the logical dimension on its axis issues no backend primitive and
\* fails with the bounds error; coordinates within [0, W] x [0, H], the
\* edges included, are not rejected by the bounds check.  (Drag paths have
\* at least two points, as the tool schema requires.)
C1_OutOfBoundsRejected ==
  (/\ call.pc # "idle"
   /\ call.op \in PointerOps
   /\ call.op = "drag" => Len(call.pts) >= 2)
  => /\ SomeOutside(call.pts, call.dims0)
        => /\ trace = <<>>
           /\ call.pc = "done" => call.status = "bounds"
     /\ ~SomeOutside(call.pts, call.dims0) => call.status # "bounds"

\* C2: a drag over a path of at least two points one of whose points is
\* outside the logical screen issues no pointer motion, press or release,
\* leaves lastMousePos unchanged and fails with the bounds error; and a drag
\* that fails with the bounds error has issued nothing.
C2_DragAllOrNothing ==
  (/\ call.pc # "idle"
   /\ call.op = "drag"
   /\ Len(call.pts) >= 2)
  => /\ SomeOutside(call.pts, LogicalDimensions)
        => /\ trace = <<>>
           /\ lastMousePos = call.last0
           /\ call.pc = "done" => call.status = "bounds"
     /\ call.status = "bounds"
        => (trace = <<>> /\ lastMousePos = call.last0)

\* C2 witness: a three-point drag whose last point only is out of bounds
\* has failed.
C2_Witness ==
  /\ call.pc = "done"
  /\ call.op = "drag"
  /\ Len(call.pts) = 3
  /\ ~Outside(call.pts[1], LogicalDimensions)
  /\ ~Outside(call.pts[2], LogicalDimensions)
  /\ Outside(call.pts[3], LogicalDimensions)
  /\ call.status = "bounds"

RECURSIVE VisitsInOrder(_, _)
\* The moves pass through the targets, in order.
VisitsInOrder(moves, targets) ==
  IF targets = <<>> THEN TRUE
  ELSE IF moves = <<>> THEN FALSE
  ELSE IF Head(moves).p = Head(targets)
    THEN VisitsInOrder(Tail(moves), Tail(targets))
    ELSE VisitsInOrder(Tail(moves), targets)

MappedKeys ==
  [i \in 1..Len(call.keys) |->
     IF IsNative THEN nativeKeyMap(toLowerCase(call.keys[i]))
     ELSE playwrightKeyMap(call.keys[i])]

RECURSIVE KeyActions(_)
\* The key presses and releases a trace amounts to; a key tap presses the
\* modifiers and the key and releases them in reverse.
KeyActions(tr) ==
  IF tr = <<>> THEN <<>>
  ELSE LET e == Head(tr) IN
       (CASE e.k = "keyDown" -> <<<<"down", e.a>>>>
          [] e.k = "keyUp" -> <<<<"up", e.a>>>>
          [] e.k = "keyTap" ->
               [i \in 1..Len(e.mods) |-> <<"down", e.mods[i]>>]
               \o <<<<"down", e.a>>, <<"up", e.a>>>>
               \o [i \in 1..Len(e.mods) |->
                     <<"up", e.mods[Len(e.mods) + 1 - i]>>]
          [] OTHER -> <<>>)
       \o KeyActions(Tail(tr))

PressAllThenReleaseReversed(mapped) ==
  [i \in 1..Len(mapped) |-> <<"down", mapped[i]>>]
  \o [i \in 1..Len(mapped) |-> <<"up", mapped[Len(mapped) + 1 - i]>>]

C8_RegionNeverRejected ==
  (call.pc = "done" /\ call.op = "screenshotRegion")
  => /\ call.status # "bounds"
     /\ call.status = "ok"
        => /\ call.result = "image"
           /\ call.rect.w >= 1
           /\ call.rect.h >= 1
           /\ call.rect.x >= 0
           /\ call.rect.y >= 0

\* C9: on the native variant screenshotRegion with a corner outside the
\* screen bounds fails with the bounds error and produces no image.
C9_NativeRegionRejects ==
  (/\ call.pc = "done"
   /\ call.op = "screenshotRegion"
   /\ IsNative
   /\ SomeOutside(call.pts, call.dims0))
  => (call.status = "bounds" /\ call.result # "image")

IsTypeEvent(e) == e.k \in {"typeString", "type"}

\* The chunks sent so far by the call, in order.
ChunksSent ==
  [j \in 1..((Len(trace) + 1) \div 2) |-> trace[2 * j - 1].mods]

IsPrefix(s, t) == Len(s) <= Len(t) /\ s = SubSeq(t, 1, Len(s))

\* C12: type(text) sends chunks of at most 3 characters, every chunk but
\* the last of exactly 3, in order, whose concatenation is text; every
\* chunk is followed, before the next chunk, by a wait of chunk length x
\* 100 ms; an empty text issues nothing.
C12_TypeChunks ==
  (call.pc # "idle" /\ call.op = "type" /\ call.status = "ok")
  => LET text == call.keys
         n == Len(trace)
         chunks == ChunksSent
     IN /\ \A j \in 1..n :
             IF j % 2 = 1
               THEN /\ IsTypeEvent(trace[j])
                    /\ Len(trace[j].mods) \in 1..3
                    /\ j + 1 < n => Len(trace[j].mods) = 3
               ELSE /\ trace[j].k = "wait"
                    /\ trace[j].dx = Len(trace[j - 1].mods) * 100
        /\ IsPrefix(Flatten(chunks), text)
        /\ call.pc = "done"
           => /\ Flatten(chunks) = text
              /\ n % 2 = 0
              /\ \A j \in 1..(Len(chunks) - 1) : Len(chunks[j]) = 3
        /\ text = <<>> => trace = <<>>

\* C12 witness: the navigable variant has typed a text of seven characters
\* as chunks of 3, 3 and 1.
C12_Witness ==
  /\ call.pc = "done"
  /\ call.op = "type"
  /\ call.status = "ok"
  /\ ~IsNative
  /\ Len(call.keys) = 7
  /\ Len(trace) = 6
  /\ Len(trace[5].mods) = 1
  /\ trace[6].dx = 100

PageOps ==
  {"screenshot", "screenshotRegion", "click", "doubleClick", "scroll",
   "type", "move", "keypress", "drag", "goto", "back", "forward"}

\* C13: on the navigable variant a page-dependent operation called with
\* in-bounds arguments (a drag path not empty) while no page is active
\* fails with the no-active-page error and issues no backend command.
C13_NoActivePage ==
  (/\ ~IsNative
   /\ call.pc # "idle"
   /\ call.op \in PageOps
   /\ call.page0 = 0
   /\ ~SomeOutside(call.pts, <<width, height>>)
   /\ call.op = "drag" => Len(call.pts) >= 1)
  => /\ call.pc = "done"
     /\ call.status = "nopage"
     /\ trace = <<>>
     /\ call.result # "image"

\* C13 witness: a drag was called after the last open page had closed (the
\* browser still running), and failed.
C13_Witness ==
  /\ ~IsNative
  /\ browser
  /\ call.pc = "done"
  /\ call.op = "drag"
  /\ Len(call.pts) = 2
  /\ call.page0 = 0
  /\ call.status = "nopage"

\* C21: a drag that has issued the press has issued the release when it
\* returns or fails.
C21_DragReleases ==
  (call.pc = "done" /\ call.op = "drag")
  => \A d \in 1..Len(trace) :
       IsPressEvent(trace[d])
       => \E u \in (d + 1)..Len(trace) : IsReleaseEvent(trace[u])

\* C22: the scaling factor lies in (0, 1]; once scaling initialization has
\* completed no step changes the factor or the target width and height;
\* and the factor is below 1 exactly when getDimensions reports the target
\* dimensions.
C22_ScalingState ==
  /\ [](/\ 0 < scalingFactor[1]
        /\ scalingFactor[1] <= scalingFactor[2]
        /\ pendingInit = <<>>
           => (scalingFactor[1] < scalingFactor[2]
               <=> /\ Truthy(targetWidth)
                   /\ Truthy(targetHeight)
                   /\ getDimensions = <<targetWidth, targetHeight>>))
  /\ [][pendingInit = <<>>
        => UNCHANGED <<scalingFactor, targetWidth, targetHeight>>]_vars

\* C23: the physical point of a logical point accepted by the bounds check
\* of a scaled NativeComputer lies within the real screen.
C23_PhysicalWithinScreen ==
  (probe.op = "move" /\ scalingFactor[1] < scalingFactor[2])
  => /\ 0 <= probe.realTarget.x /\ probe.realTarget.x <= realW
     /\ 0 <= probe.realTarget.y /\ probe.realTarget.y <= realH

\* C24: the rectangle screenshotRegion hands to the capture backend is at
\* least 1x1 and lies inside the real screen (native) or the viewport
\* (navigable).
C24_RegionInsideScreen ==
  (call.pc = "done" /\ call.op = "screenshotRegion" /\ call.status = "ok")
  => LET r == call.rect
         w == IF IsNative THEN realW ELSE width
         h == IF IsNative THEN realH ELSE height
     IN /\ r.x >= 0 /\ r.y >= 0
        /\ r.w >= 1 /\ r.h >= 1
        /\ r.x + r.w <= w
        /\ r.y + r.h <= h

\* C25: a resize spec a scaled NativeComputer passes to the compressor is at
\* least 1x1 and within the logical dimensions.
C25_ResizeWithinLogical ==
  (/\ probe.op \in {"screenshot", "screenshotRegion"}
   /\ probe.passed
   /\ scalingFactor[1] < scalingFactor[2])
  => /\ 1 <= probe.resize.x /\ probe.resize.x <= getDimensions[1]
     /\ 1 <= probe.resize.y /\ probe.resize.y <= getDimensions[2]

\* The primitive that ends click, doubleClick and scroll.
IsFinalEvent(e) ==
  e.k \in {"mouseClick", "scrollMouse", "click", "dblclick", "wheel"}

\* C26: click, doubleClick and scroll issue nothing when the bounds check
\* fails; otherwise they replay the motion path to the target and then
\* issue their press, double-press or wheel primitive, once, after the
\* pointer has reached the target.
C26_MoveThenAct ==
  (call.pc # "idle" /\ call.op \in {"click", "doubleClick", "scroll"})
  => LET n == Len(trace) IN
     /\ call.status = "bounds" => trace = <<>>
     /\ \A j \in 1..n :
          \/ IsMoveEvent(trace[j])
          \/ /\ IsFinalEvent(trace[j])
             /\ j = n
             /\ j > 1
             /\ IsMoveEvent(trace[j - 1])
             /\ trace[j - 1].p = Physical(call.pts[1])
     /\ (call.pc = "done" /\ call.status = "ok")
        => (n > 0 /\ IsFinalEvent(trace[n]))

\* C26 witness: a double click on the navigable variant has completed.
C26_Witness ==
  /\ ~IsNative
  /\ call.pc = "done"
  /\ call.op = "doubleClick"
  /\ call.status = "ok"
  /\ Len(trace) > 1

C28_PathContinuity ==
  (call.pc # "idle" /\ call.op \in {"move", "click", "doubleClick", "scroll"})
  => LET target == Physical(call.pts[1])
         moves == SelectSeq(trace, IsMoveEvent)
         sent == [j \in 1..Len(moves) |-> moves[j].p]
     IN /\ \E mids \in Mids :
             IsPrefix(sent, <<call.last0>> \o mids \o <<target>>)
        /\ (call.pc = "done" /\ call.status = "ok")
           => /\ lastMousePos = target
              /\ \E mids \in Mids :
                   sent = <<call.last0>> \o mids \o <<target>>
        /\ call.status = "bounds"
           => (trace = <<>> /\ lastMousePos = call.last0)

\* C28 witness: a native instance constructed with the pointer away from
\* the origin has completed a move to another point.
C28_Witness ==
  /\ IsNative
  /\ call.pc = "done"
  /\ call.op = "move"
  /\ call.status = "ok"
  /\ call.last0 # Pt(0, 0)
  /\ trace[1].p = call.last0
  /\ lastMousePos # call.last0

\* C29: a native keypress of a list holding a non-modifier token, in any
\* order, issues one key tap whose modifiers are the tokens the lookup
\* table maps to a modifier and whose main key is the last non-modifier
\* token.
C29_ModifiersAnyOrder ==
  (call.pc = "done" /\ call.op = "keypress" /\ call.status = "ok" /\ IsNative)
  => LET mapped == MappedKeys
         plain == {i \in 1..Len(mapped) : mapped[i] \notin nativeModifiers}
         IsModifier(k) == k \in nativeModifiers
     IN plain # {}
        => LET last == CHOOSE i \in plain : \A j \in plain : j <= i IN
           /\ Len(trace) = 1
           /\ trace[1].k = "keyTap"
           /\ trace[1].a = mapped[last]
           /\ trace[1].mods = SelectSeq(mapped, IsModifier)

\* C30: a drag given a path of fewer than two points sends no pointer
\* motion, press or release to the backend, on either variant, and leaves
\* the last pointer position unchanged.
C30_ShortDragDoesNothing ==
  (call.pc # "idle" /\ call.op = "drag" /\ Len(call.pts) < 2)
  => /\ \A j \in 1..Len(trace) :
          /\ ~IsMoveEvent(trace[j])
          /\ ~IsPressEvent(trace[j])
          /\ ~IsReleaseEvent(trace[j])
     /\ lastMousePos = call.last0

============================================================================
